---- MODULE Spec2Model ----
(***************************************************************************)
(* The recommendation orchestration pipeline of src/server.js:             *)
(* POST /api/recommend chains Storage.save, Storage.fetchCareers, the      *)
(* scoring service and Storage.updateRecommendations under withTimeout     *)
(* and retryOperation, and classifies failures in its catch block.         *)
(*                                                                         *)
(* JavaScript values are encoded as strings or records:                    *)
(*   - a candidate attribute is one of the strings of JsValues;            *)
(*   - an error message is a sequence of tokens, and String.includes is    *)
(*     the presence of the needle among the tokens;                        *)
(*   - a thrown value is a record [tag, msg, code, origin]; origin is a    *)
(*     history field (where the value was created), never read by the      *)
(*     modelled code.                                                      *)
(***************************************************************************)
EXTENDS Integers, Sequences, FiniteSets, TLC

\* ------------------------------------------------------------------ bounds
MaxCareers == 1        \* longest careers array fetchCareers resolves with
MaxRecs == 1           \* longest recommendations array the scoring service returns
NumIds == 2
MaxAttempts == 3
MaxOverrides == 1            \* how many distinct ids Storage.save can return

\* ------------------------------------------------------- program constants
SaveMaxRetries == 2    \* retryOperation(..., 2) around save
ScoreMaxRetries == 2   \* retryOperation(..., 2, 2000) around axios.post
ScoreRetryDelay == 2000
DefaultRetryDelay == 1000

\* --------------------------------------------------------------- JS values
Undefined == "undefined"
JsFalsy == {"undefined", "null", "str:", "num:0"}
JsStrings == {"str:", "str:Ada", "str:tech"}

Truthy(v) == v \notin JsFalsy
IsString(v) == v \in JsStrings

\* String.prototype.includes on a tokenised message
Includes(msg, needle) == \E i \in 1..Len(msg) : msg[i] = needle

\* ------------------------------------------------------------- environment
Unset == "<unset>"

EnvVars ==
  {"CANDIDATE_NAME_FIELD", "CANDIDATE_SECTOR_FIELD", "CANDIDATE_SKILLS_FIELD",
   "CANDIDATE_EXPERIENCE_FIELD", "CANDIDATE_EDUCATION_FIELD",
   "CANDIDATE_PREFERENCES_FIELD", "CANDIDATE_ID_FIELD",
   "DB_GET_DROPDOWNS_METHOD", "DB_SAVE_CANDIDATE_METHOD",
   "DB_FETCH_CAREERS_METHOD", "DB_UPDATE_RECS_METHOD",
   "CAREER_FILTER_FIELD", "AI_CANDIDATE_KEY", "AI_CAREERS_KEY", "NODE_ENV"}

NoEnv == [v \in EnvVars |-> Unset]

\* The process environments the model starts from: nothing set, a variable
\* set to the empty string, a renamed candidate field, a renamed storage
\* operation, and the development configuration.
EnvConfigs ==
  { NoEnv,
    [NoEnv EXCEPT !["CANDIDATE_SECTOR_FIELD"] = ""],
    [NoEnv EXCEPT !["CANDIDATE_NAME_FIELD"] = "fullName"],
    [NoEnv EXCEPT !["DB_FETCH_CAREERS_METHOD"] = "timeout"],
    [NoEnv EXCEPT !["NODE_ENV"] = "development"] }

\* variant: process.env.X ?? 'default' (an empty string is kept)
OrDefaultNullish(value, default) == IF value = Unset THEN default ELSE value

\* process.env.X || 'default'
OrDefault(value, default) == IF value = Unset \/ value = "" THEN default ELSE value

FIELD_MAPPINGS(e) ==
  [ candidate |->
      [ name |-> OrDefault(e["CANDIDATE_NAME_FIELD"], "name"),
        sector |-> OrDefault(e["CANDIDATE_SECTOR_FIELD"], "sector"),
        skills |-> OrDefault(e["CANDIDATE_SKILLS_FIELD"], "skills"),
        experience |-> OrDefault(e["CANDIDATE_EXPERIENCE_FIELD"], "experience"),
        education |-> OrDefault(e["CANDIDATE_EDUCATION_FIELD"], "education"),
        preferences |-> OrDefault(e["CANDIDATE_PREFERENCES_FIELD"], "preferences"),
        id |-> OrDefault(e["CANDIDATE_ID_FIELD"], "id") ],
    dbMethods |->
      [ getDropdowns |-> OrDefault(e["DB_GET_DROPDOWNS_METHOD"], "getDropdowns"),
        saveCandidate |-> OrDefault(e["DB_SAVE_CANDIDATE_METHOD"], "saveCandidate"),
        fetchCareers |-> OrDefault(e["DB_FETCH_CAREERS_METHOD"], "fetchCareers"),
        updateRecommendations |->
          OrDefault(e["DB_UPDATE_RECS_METHOD"], "updateCandidateRecommendations") ],
    careerFilter |-> [ sector |-> OrDefault(e["CAREER_FILTER_FIELD"], "sector") ],
    aiPayload |->
      [ candidate |-> OrDefault(e["AI_CANDIDATE_KEY"], "candidate"),
        careers |-> OrDefault(e["AI_CAREERS_KEY"], "careers") ] ]

\* Object.values(FIELD_MAPPINGS.dbMethods), in insertion order
DbMethodValues(fm) ==
  << fm.dbMethods.getDropdowns, fm.dbMethods.saveCandidate,
     fm.dbMethods.fetchCareers, fm.dbMethods.updateRecommendations >>

\* ------------------------------------------------- the storage module (db)
DefaultDbExports ==
  {"getDropdowns", "saveCandidate", "fetchCareers", "updateCandidateRecommendations"}

\* ./dbService as the process finds it: not loadable, complete (with or
\* without an operation called "timeout"), or lacking one operation.
DbModules ==
  { [loadable |-> FALSE, exports |-> {}],
    [loadable |-> TRUE, exports |-> DefaultDbExports],
    [loadable |-> TRUE, exports |-> DefaultDbExports \cup {"timeout"}] }
  \cup { [loadable |-> TRUE, exports |-> DefaultDbExports \ {m}] : m \in DefaultDbExports }

\* ------------------------------------------------------------ request body
BodyFields == {"name", "fullName", "sector"}

\* req.body after express.json(): each attribute absent or one JSON value
Bodies ==
  { b \in [BodyFields -> {Undefined, "str:", "str:Ada", "str:tech", "num:42"}] :
      /\ b["name"] \in {Undefined, "str:", "str:Ada", "num:42"}
      /\ b["fullName"] \in {Undefined, "str:Ada"}
      /\ b["sector"] \in {Undefined, "str:", "str:tech"} }

\* candidate[field]: an attribute the body does not carry reads as undefined
Get(candidate, field) ==
  IF field \in DOMAIN candidate THEN candidate[field] ELSE Undefined

\* ------------------------------------------------------------ thrown values
Err(msg, code, origin) == [tag |-> "Error", msg |-> msg, code |-> code, origin |-> origin]

NoErr == [tag |-> "none", msg |-> <<>>, code |-> "none", origin |-> "none"]

\* null or undefined: reading .message of it throws a TypeError
Nullish == [tag |-> "Nullish", msg |-> <<>>, code |-> "none", origin |-> "collaborator"]

\* a string, a number or an object without a message: .message is undefined
NoMessage == [tag |-> "NoMessage", msg |-> <<>>, code |-> "none", origin |-> "collaborator"]

\* TypeError: Cannot read properties of null (reading 'message')
TypeErrorOnMessage ==
  Err(<<"Cannot read properties of", "null", "(reading 'message')">>, "none", "runtime")

\* What a storage operation can reject with (or throw when called): an
\* ordinary error, an error of the driver whose text speaks of a timeout or of
\* a failed validation, a refused connection to the database, or a value that
\* is no Error at all.
StorageRejections ==
  { Err(<<"storage", "failure">>, "none", "collaborator"),
    Err(<<"lock", "wait", "timeout", "exceeded">>, "none", "collaborator"),
    Err(<<"Candidate", "Validation failed">>, "none", "collaborator"),
    Err(<<"connect", "ECONNREFUSED">>, "ECONNREFUSED", "collaborator"),
    Nullish,
    NoMessage }

\* axios rejects with an AxiosError: connection refused, a non-2xx status, or
\* its own timeout (the `timeout` option of the request).
AxiosConnRefused == Err(<<"connect", "ECONNREFUSED">>, "ECONNREFUSED", "collaborator")
AxiosBadStatus == Err(<<"Request failed with status code", "500">>, "ERR_BAD_RESPONSE", "collaborator")
AxiosTimeout == Err(<<"timeout", "of", "<AI_SERVICE_TIMEOUT>ms", "exceeded">>, "ECONNABORTED", "deadline")
AxiosRejections == {AxiosConnRefused, AxiosBadStatus, AxiosTimeout}

\* --------------------------------------------------- collaborator results
IdNames == <<"c1", "c2", "c3", "c4">>
Ids == { IdNames[i] : i \in 1..NumIds }
NullId == "null"

Array(n) == [kind |-> "array", len |-> n]
NotArray(k) == [kind |-> k, len |-> 0]

\* what fetchCareers can resolve with
CareersResults == { Array(n) : n \in 0..MaxCareers } \cup { NotArray("undefined"), NotArray("object") }

\* response.data of the scoring service: an array of records, a JSON object,
\* or an empty / absent body
ScoreBodies == { Array(n) : n \in 0..MaxRecs } \cup { NotArray("object"), NotArray("undefined"), NotArray("str:") }

IsArray(v) == v.kind = "array"
TruthyData(v) == v.kind \in {"array", "object"}

\* v.length || 0
LengthOrZero(v) == IF v.kind = "array" THEN v.len ELSE 0

\* --------------------------------------------------------------- validation
createCandidateSchema(fm) ==
  [ required |-> << fm.candidate.name, fm.candidate.sector >>,
    optional |-> << fm.candidate.skills, fm.candidate.experience,
                    fm.candidate.education, fm.candidate.preferences >> ]

\* variant: only the name is required
validateCandidateNameOnly(candidate, fm) ==
  IF ~Truthy(Get(candidate, fm.candidate.name))
  THEN << <<"Missing required field:", fm.candidate.name>> >>
  ELSE << >>

validateCandidate(candidate, fm) ==
  LET schema == createCandidateSchema(fm)
      missing == SelectSeq(schema.required, LAMBDA f : ~Truthy(Get(candidate, f)))
      nameField == fm.candidate.name
      badName == IF Truthy(Get(candidate, nameField)) /\ ~IsString(Get(candidate, nameField))
                 THEN << <<nameField, "must be a string">> >>
                 ELSE << >>
  IN  [ i \in 1..Len(missing) |-> <<"Missing required field:", missing[i]>> ] \o badName

\* ------------------------------------------------------------- the wrappers
\* the error withTimeout's timer rejects with
TimeoutError(operation) ==
  Err(<<operation, "timeout", "after", "<timeoutMs>ms">>, "none", "deadline")

\* The catch block of retryOperation after attempt `attempt` failed with
\* `error`: throw (the error, or the TypeError of reading error.message), or
\* wait delay * attempt and go round the loop.
\* variant: the budget is compared one attempt too late
RetryCatchOffByOne(attempt, maxRetries, delay, error) ==
  IF error.tag = "Nullish"
  THEN [act |-> "throw", err |-> TypeErrorOnMessage, ms |-> 0]
  ELSE IF attempt = maxRetries + 1
       THEN [act |-> "throw", err |-> error, ms |-> 0]
       ELSE [act |-> "wait", err |-> error, ms |-> delay * attempt]

\* variant: the same delay before every attempt
RetryCatchFixedDelay(attempt, maxRetries, delay, error) ==
  IF error.tag = "Nullish"
  THEN [act |-> "throw", err |-> TypeErrorOnMessage, ms |-> 0]
  ELSE IF attempt = maxRetries
       THEN [act |-> "throw", err |-> error, ms |-> 0]
       ELSE [act |-> "wait", err |-> error, ms |-> delay]

RetryCatch(attempt, maxRetries, delay, error) ==
  IF error.tag = "Nullish"
  THEN [act |-> "throw", err |-> TypeErrorOnMessage, ms |-> 0]
  ELSE IF attempt = maxRetries
       THEN [act |-> "throw", err |-> error, ms |-> 0]
       ELSE [act |-> "wait", err |-> error, ms |-> delay * attempt]

\* ---------------------------------------------------- failure classification
\* variant: the ECONNREFUSED test is missing
StatusCodeNoRefused(err) ==
  LET s1 == IF Includes(err.msg, "Validation failed") THEN 400 ELSE 500
  IN  IF Includes(err.msg, "timeout") THEN 408 ELSE s1

\* variant: else-if, the first test that matches decides
StatusCodeFirstMatch(err) ==
  IF Includes(err.msg, "Validation failed") THEN 400
  ELSE IF Includes(err.msg, "timeout") THEN 408
  ELSE IF err.code = "ECONNREFUSED" THEN 503
  ELSE 500

StatusCode(err) ==
  LET s0 == 500
      s1 == IF Includes(err.msg, "Validation failed") THEN 400 ELSE s0
      s2 == IF Includes(err.msg, "timeout") THEN 408 ELSE s1
  IN  IF err.code = "ECONNREFUSED" THEN 503 ELSE s2

\* collaborators that can answer a call with anything listed above
AnyCollaborators ==
  [ ids |-> Ids,
    storageRejections |-> StorageRejections,
    careersResults |-> CareersResults,
    scoreBodies |-> ScoreBodies,
    axiosRejections |-> AxiosRejections ]

\* ------------------------------------------------------------------- state
VARIABLES
  env,                 \* process.env when the module is loaded
  fieldMappings,       \* FIELD_MAPPINGS, built once from env
  db,                  \* what require('./dbService') finds
  forwardsRejections,  \* whether the router forwards a rejected handler promise
                       \* to the error middleware (Express 5) or not (Express 4)
  collaborators,       \* what the storage module and the scoring service of
                       \* this deployment resolve with and reject with
  retry,               \* one call of retryOperation made on its own
  req,                 \* per request: the locals of the /api/recommend handler
  storage              \* the records the storage collaborator holds

vars == <<env, fieldMappings, db, forwardsRejections, collaborators, retry, req, storage>>
process == <<env, fieldMappings, db, forwardsRejections, collaborators>>

\* a call of retryOperation(operation, maxRetries, delay): its parameters,
\* its loop variable, and what has happened so far
RetryCall(maxRetries, delay) ==
  [ pc |-> "call",
    maxRetries |-> maxRetries,
    delay |-> delay,
    attempt |-> 1,
    calls |-> 0,
    pending |-> 0,
    outcomes |-> << >>,
    waited |-> << >>,
    result |-> [kind |-> "none"] ]

\* no such call is being made
NoRetry == [RetryCall(0, 0) EXCEPT !.pc = "idle"]

\* the requests in flight under Spec
Requests == {"r1"}

NoCalls == [save |-> 0, fetch |-> 0, score |-> 0, update |-> 0]

\* The handler's locals on entry (lines 236-237), with the history fields:
\*   calls         how often each collaborator operation was invoked
\*   log           the calls issued and how each settled for the handler
\*   saveReturned  the id the save call handed to the handler
\*   fetchReturned what fetchCareers resolved with for the handler
\*   scoreReturned the body of the scoring response the handler accepted
\*   updateArgs    the arguments of the updateRecommendations calls
\*   abandoned     calls whose deadline fired and that are still running
\*   waited        the delays retryOperation slept
\*   responses     what was sent on res
NewRequest(body) ==
  [ pc |-> "Validating",
    body |-> body,
    candidateId |-> NullId,
    attempt |-> 0,
    careers |-> NotArray("undefined"),
    recommendations |-> NotArray("undefined"),
    err |-> NoErr,
    calls |-> NoCalls,
    log |-> << >>,
    saveReturned |-> NullId,
    fetchReturned |-> NotArray("undefined"),
    scoreReturned |-> NotArray("undefined"),
    updateArgs |-> << >>,
    rejectedWith |-> NoErr,
    abandoned |-> {},
    waited |-> << >>,
    responses |-> << >> ]

Init ==
  /\ env \in EnvConfigs
  /\ fieldMappings = FIELD_MAPPINGS(env)
  /\ db \in DbModules
  /\ forwardsRejections \in BOOLEAN
  /\ collaborators = AnyCollaborators
  /\ retry = NoRetry
  /\ req \in [Requests -> { NewRequest(b) : b \in Bodies }]
  /\ storage = [records |-> {}, updates |-> {}]

\* ----------------------------------------------------------------- responses
Development == env["NODE_ENV"] = "development"

ValidationResponse(errors) ==
  [ status |-> 400,
    by |-> "recommend",
    body |-> [ success |-> FALSE,
               error |-> "Validation failed",
               details |-> errors,
               expectedFields |-> createCandidateSchema(fieldMappings) ] ]

\* variant: both counts are taken from the recommendations
SuccessResponseOneCount(q) ==
  [ status |-> 200,
    by |-> "recommend",
    body |-> [ success |-> TRUE,
               candidateId |-> q.candidateId,
               recommendations |-> q.recommendations,
               processingTime |-> "elapsed",
               metadata |-> [ careersAnalyzed |-> LengthOrZero(q.recommendations),
                              recommendationsGenerated |-> LengthOrZero(q.recommendations) ] ] ]

SuccessResponse(q) ==
  [ status |-> 200,
    by |-> "recommend",
    body |-> [ success |-> TRUE,
               candidateId |-> q.candidateId,
               recommendations |-> q.recommendations,
               processingTime |-> "elapsed",
               metadata |-> [ careersAnalyzed |-> q.careers.len,
                              recommendationsGenerated |-> LengthOrZero(q.recommendations) ] ] ]

FailureResponse(q) ==
  [ status |-> StatusCode(q.err),
    by |-> "recommend",
    body |-> IF Development
             THEN [ success |-> FALSE, error |-> "AI recommendation failed",
                    candidateId |-> q.candidateId, processingTime |-> "elapsed",
                    details |-> q.err.msg ]
             ELSE [ success |-> FALSE, error |-> "AI recommendation failed",
                    candidateId |-> q.candidateId, processingTime |-> "elapsed" ] ]

ErrorMiddlewareResponse ==
  [ status |-> 500,
    by |-> "errorMiddleware",
    body |-> IF Development
             THEN [ success |-> FALSE, error |-> "Internal server error",
                    details |-> TypeErrorOnMessage.msg ]
             ELSE [ success |-> FALSE, error |-> "Internal server error" ] ]

Send(q, response) == [q EXCEPT !.responses = Append(@, response)]

\* a throw inside the handler's try block: control goes to the catch block
Throw(q, error) == [q EXCEPT !.pc = "Catch", !.err = error]

\* what the handler does with the outcome of one attempt under retryOperation
AfterFailedAttempt(q, error, maxRetries, delay, backoffPc) ==
  LET d == RetryCatch(q.attempt, maxRetries, delay, error)
  IN  IF d.act = "throw"
      THEN Throw(q, d.err)
      ELSE [q EXCEPT !.pc = backoffPc, !.waited = Append(@, d.ms)]

\* --------------------------------------------------------------- the handler
\* variant: candidateId is declared at module level, so every handler in
\* flight sees the last value any of them assigned
SetSharedCandidateId(r, q) ==
  req' = [x \in DOMAIN req |->
            IF x = r THEN q ELSE [req[x] EXCEPT !.candidateId = q.candidateId]]

\* the handler's variables are locals of one invocation (lines 236-245)
Set(r, q) == req' = [req EXCEPT ![r] = q]

\* Lines 240-255: copy the body, validate it, answer 400 on validation errors.
Validate(r) ==
  /\ req[r].pc = "Validating"
  /\ LET candidate == req[r].body
         validationErrors == validateCandidate(candidate, fieldMappings)
     IN  IF Len(validationErrors) > 0
         THEN Set(r, Send([req[r] EXCEPT !.pc = "Failed"], ValidationResponse(validationErrors)))
         ELSE Set(r, [req[r] EXCEPT !.pc = "ResolvingDb"])
  /\ UNCHANGED <<process, retry, storage>>

\* requiredMethods.filter(method => typeof db[method] !== 'function')
\* variant: only the operations the pipeline calls are looked for
MissingMethodsCalledOnly(fm, module) ==
  SelectSeq(DbMethodValues(fm),
            LAMBDA m : m \notin module.exports /\ m # fm.dbMethods.getDropdowns)

MissingMethods(fm, module) ==
  SelectSeq(DbMethodValues(fm), LAMBDA m : m \notin module.exports)

\* Lines 257-266: load the storage module and check the mapped operations.
ResolveDb(r) ==
  /\ req[r].pc = "ResolvingDb"
  /\ LET missingMethods == MissingMethods(fieldMappings, db)
     IN  IF ~db.loadable
         THEN Set(r, Throw(req[r], Err(<<"Database service not found.">>, "none", "contract")))
         ELSE IF Len(missingMethods) > 0
              THEN Set(r, Throw(req[r],
                     Err(<<"Database service missing methods:">> \o missingMethods,
                         "none", "contract")))
              ELSE Set(r, [req[r] EXCEPT !.pc = "Saving", !.attempt = 1])
  /\ UNCHANGED <<process, retry, storage>>

\* One more call of a collaborator operation, and the handler awaits it.
Issue(q, op, awaitPc) ==
  [q EXCEPT !.calls[op] = @ + 1, !.pc = awaitPc, !.log = Append(@, <<op, "issued">>)]

\* history: how the pending call `op` settled for the awaiting handler
Note(q, op, what) == [q EXCEPT !.log = Append(@, <<op, what>>)]

\* history: a rejection, told apart by err.code
Rejection(e) == IF e.code = "ECONNREFUSED" THEN "refused" ELSE "rejected"

\* A deadline fired on the pending call `op`: the call is not cancelled.
Abandon(q, op) == [q EXCEPT !.abandoned = @ \cup {<<op, q.calls[op]>>}]

\* Step 1, line 271: db[dbMethods.saveCandidate](candidate)
IssueSave(r) ==
  /\ req[r].pc = "Saving"
  /\ Set(r, Issue(req[r], "save", "AwaitSave"))
  /\ UNCHANGED <<process, retry, storage>>

\* line 270: candidateId = await retryOperation(...)
\* variant: the id is bound to a local of the try block, not to candidateId
SaveSucceededIdDropped(q, id) ==
  [q EXCEPT !.pc = "FetchingCareers"]

SaveSucceeded(q, id) ==
  [q EXCEPT !.candidateId = id, !.pc = "FetchingCareers"]

SaveFailed(q, error) ==
  AfterFailedAttempt(q, error, SaveMaxRetries, DefaultRetryDelay, "SaveBackoff")

SaveResolves(r) ==
  /\ req[r].pc = "AwaitSave"
  /\ \E id \in collaborators.ids :
       /\ Set(r, SaveSucceeded([Note(req[r], "save", "resolved") EXCEPT !.saveReturned = id], id))
       /\ storage' = [storage EXCEPT !.records = @ \cup {[owner |-> r, id |-> id]}]
  /\ UNCHANGED <<process, retry>>

SaveRejects(r) ==
  /\ req[r].pc = "AwaitSave"
  /\ \E e \in collaborators.storageRejections : Set(r, SaveFailed([Note(req[r], "save", Rejection(e)) EXCEPT !.rejectedWith = e], e))
  /\ UNCHANGED <<process, retry, storage>>

SaveTimesOut(r) ==
  /\ req[r].pc = "AwaitSave"
  /\ Set(r, SaveFailed(Note(Abandon(req[r], "save"), "save", "deadline"),
                        TimeoutError("Save candidate")))
  /\ UNCHANGED <<process, retry, storage>>

\* line 131: the delay of retryOperation has elapsed; next turn of the loop
BackoffElapses(r) ==
  /\ req[r].pc \in {"SaveBackoff", "ScoreBackoff"}
  /\ Set(r, [req[r] EXCEPT !.attempt = @ + 1,
                           !.pc = IF req[r].pc = "SaveBackoff" THEN "Saving" ELSE "Scoring"])
  /\ UNCHANGED <<process, retry, storage>>

\* Step 2, lines 278-288: db[dbMethods.fetchCareers](careerFilter)
IssueFetch(r) ==
  /\ req[r].pc = "FetchingCareers"
  /\ Set(r, Issue(req[r], "fetch", "AwaitFetch"))
  /\ UNCHANGED <<process, retry, storage>>

\* lines 284-301: the careers arrive; a non-array is refused
\* variant: a non-array result is coerced to an empty list (careers || [])
FetchSucceededCoerced(q, careers) ==
  [q EXCEPT !.careers = IF IsArray(careers) THEN careers ELSE Array(0),
            !.pc = "Scoring", !.attempt = 1]

FetchSucceeded(q, careers) ==
  IF ~IsArray(careers)
  THEN Throw(q, Err(<<"Invalid careers response - expected array">>, "none", "contract"))
  ELSE [q EXCEPT !.careers = careers, !.pc = "Scoring", !.attempt = 1]

\* variant: the failure is swallowed and the pipeline goes on without careers
FetchFailedIgnored(q, error) ==
  [q EXCEPT !.pc = "Scoring", !.attempt = 1]

FetchFailed(q, error) == Throw(q, error)

FetchResolves(r) ==
  /\ req[r].pc = "AwaitFetch"
  /\ \E c \in collaborators.careersResults :
       Set(r, FetchSucceeded(
                [Note(req[r], "fetch", IF IsArray(c) THEN "resolved" ELSE "malformed")
                   EXCEPT !.fetchReturned = c], c))
  /\ UNCHANGED <<process, retry, storage>>

FetchRejects(r) ==
  /\ req[r].pc = "AwaitFetch"
  /\ \E e \in collaborators.storageRejections : Set(r, FetchFailed([Note(req[r], "fetch", Rejection(e)) EXCEPT !.rejectedWith = e], e))
  /\ UNCHANGED <<process, retry, storage>>

FetchTimesOut(r) ==
  /\ req[r].pc = "AwaitFetch"
  /\ Set(r, FetchFailed(Note(Abandon(req[r], "fetch"), "fetch", "deadline"),
                         TimeoutError("Fetch careers")))
  /\ UNCHANGED <<process, retry, storage>>

\* Step 3, line 304: axios.post(AI_SERVICE_URL, aiPayload, {timeout})
IssueScore(r) ==
  /\ req[r].pc = "Scoring"
  /\ Set(r, Issue(req[r], "score", "AwaitScore"))
  /\ UNCHANGED <<process, retry, storage>>

ScoreFailed(q, error) ==
  AfterFailedAttempt(q, error, ScoreMaxRetries, ScoreRetryDelay, "ScoreBackoff")

\* variant: the body is taken as it comes
ScoreSucceededUnchecked(q, data) ==
  [q EXCEPT !.recommendations = data, !.pc = "Persisting"]

\* lines 312-319: an empty body fails the attempt, anything else is the result
ScoreSucceeded(q, data) ==
  IF ~TruthyData(data)
  THEN ScoreFailed(q, Err(<<"Empty response from AI service">>, "none", "contract"))
  ELSE [q EXCEPT !.recommendations = data, !.pc = "Persisting"]

ScoreResponds(r) ==
  /\ req[r].pc = "AwaitScore"
  /\ \E data \in collaborators.scoreBodies :
       Set(r, ScoreSucceeded(
                [Note(req[r], "score", IF TruthyData(data) THEN "resolved" ELSE "empty")
                   EXCEPT !.scoreReturned = data], data))
  /\ UNCHANGED <<process, retry, storage>>

\* axios rejects: refused, bad status, or its own timeout
ScoreRejects(r) ==
  /\ req[r].pc = "AwaitScore"
  /\ \E e \in collaborators.axiosRejections :
       Set(r, ScoreFailed(Note(req[r], "score", IF e = AxiosTimeout THEN "deadline" ELSE Rejection(e)), e))
  /\ UNCHANGED <<process, retry, storage>>

\* Step 4, line 325: db[dbMethods.updateRecommendations](candidateId, recommendations)
\* variant: the update is keyed by the candidate's id attribute, which the
\* request body does not carry
UpdateArgsBodyId(q) == [id |-> NullId, recommendations |-> q.recommendations]

\* line 325: the arguments of updateRecommendations
UpdateArgs(q) == [id |-> q.candidateId, recommendations |-> q.recommendations]

IssueUpdate(r) ==
  /\ req[r].pc = "Persisting"
  /\ Set(r, [Issue(req[r], "update", "AwaitUpdate")
               EXCEPT !.updateArgs = Append(@, UpdateArgs(req[r]))])
  /\ UNCHANGED <<process, retry, storage>>

\* lines 330-348: the success response
UpdateSucceeded(q) ==
  Send([q EXCEPT !.pc = "Done"], SuccessResponse(q))

\* variant: a failed update is issued again
UpdateFailedRetried(q, error) ==
  [q EXCEPT !.pc = "Persisting"]

UpdateFailed(q, error) == Throw(q, error)

\* the write the storage collaborator applies for an update call
UpdateOf(r) ==
  LET args == req[r].updateArgs[Len(req[r].updateArgs)]
  IN  [owner |-> r, id |-> args.id, recommendations |-> args.recommendations]

UpdateResolves(r) ==
  /\ req[r].pc = "AwaitUpdate"
  /\ Set(r, UpdateSucceeded(Note(req[r], "update", "resolved")))
  /\ storage' = [storage EXCEPT !.updates = @ \cup {UpdateOf(r)}]
  /\ UNCHANGED <<process, retry>>

UpdateRejects(r) ==
  /\ req[r].pc = "AwaitUpdate"
  /\ \E e \in collaborators.storageRejections : Set(r, UpdateFailed([Note(req[r], "update", Rejection(e)) EXCEPT !.rejectedWith = e], e))
  /\ UNCHANGED <<process, retry, storage>>

UpdateTimesOut(r) ==
  /\ req[r].pc = "AwaitUpdate"
  /\ Set(r, UpdateFailed(Note(Abandon(req[r], "update"), "update", "deadline"),
                          TimeoutError("Update recommendations")))
  /\ UNCHANGED <<process, retry, storage>>

\* Lines 350-371: the catch block. Reading err.message of null or undefined
\* (line 353), or calling includes on an undefined message (line 360), throws
\* inside the catch block, and the handler's promise rejects.
\* variant: the catch block deletes the record the request saved
CatchWithRollback(r) ==
  /\ req[r].pc = "Catch"
  /\ IF req[r].err.tag \in {"Nullish", "NoMessage"}
     THEN Set(r, [req[r] EXCEPT !.pc = "Rejected", !.err = TypeErrorOnMessage])
     ELSE Set(r, Send([req[r] EXCEPT !.pc = "Failed"], FailureResponse(req[r])))
  /\ storage' = [storage EXCEPT !.records = {rec \in @ : rec.owner # r}]
  /\ UNCHANGED <<process, retry>>

Catch(r) ==
  /\ req[r].pc = "Catch"
  /\ IF req[r].err.tag \in {"Nullish", "NoMessage"}
     THEN Set(r, [req[r] EXCEPT !.pc = "Rejected", !.err = TypeErrorOnMessage])
     ELSE Set(r, Send([req[r] EXCEPT !.pc = "Failed"], FailureResponse(req[r])))
  /\ UNCHANGED <<process, retry, storage>>

\* The handler's promise rejected and the router does not look at it: the
\* request is never answered.
UnhandledRejection(r) ==
  /\ req[r].pc = "Rejected"
  /\ ~forwardsRejections
  /\ Set(r, [req[r] EXCEPT !.pc = "Unhandled"])
  /\ UNCHANGED <<process, retry, storage>>

\* Lines 461-468: the global error handler, when the router forwards the
\* rejection to it.
ErrorMiddleware(r) ==
  /\ req[r].pc = "Rejected"
  /\ forwardsRejections
  /\ Set(r, Send([req[r] EXCEPT !.pc = "ErrorHandled"], ErrorMiddlewareResponse))
  /\ UNCHANGED <<process, retry, storage>>

\* A call abandoned by withTimeout settles later; its outcome is discarded by
\* Promise.race, but a save or an update that completes has written.
\* variant: the handler is still listening to a call it gave up on
LateSettleObserved(r) ==
  /\ \E a \in req[r].abandoned :
       /\ Set(r, Note([req[r] EXCEPT !.abandoned = @ \ {a}], a[1], "resolved"))
       /\ \/ /\ a[1] = "save"
             /\ \E id \in collaborators.ids :
                  storage' = [storage EXCEPT !.records = @ \cup {[owner |-> r, id |-> id]}]
          \/ /\ a[1] = "update"
             /\ storage' = [storage EXCEPT !.updates = @ \cup {UpdateOf(r)}]
          \/ UNCHANGED storage
  /\ UNCHANGED <<process, retry>>

LateSettle(r) ==
  /\ \E a \in req[r].abandoned :
       /\ Set(r, [req[r] EXCEPT !.abandoned = @ \ {a}])
       /\ \/ /\ a[1] = "save"
             /\ \E id \in collaborators.ids :
                  storage' = [storage EXCEPT !.records = @ \cup {[owner |-> r, id |-> id]}]
          \/ /\ a[1] = "update"
             /\ storage' = [storage EXCEPT !.updates = @ \cup {UpdateOf(r)}]
          \/ UNCHANGED storage
  /\ UNCHANGED <<process, retry>>

\* the steps of the handler of request r (and of the router after it)
Step(r) ==
  \/ Validate(r)
  \/ ResolveDb(r)
  \/ IssueSave(r)
  \/ SaveResolves(r)
  \/ SaveRejects(r)
  \/ SaveTimesOut(r)
  \/ BackoffElapses(r)
  \/ IssueFetch(r)
  \/ FetchResolves(r)
  \/ FetchRejects(r)
  \/ FetchTimesOut(r)
  \/ IssueScore(r)
  \/ ScoreResponds(r)
  \/ ScoreRejects(r)
  \/ IssueUpdate(r)
  \/ UpdateResolves(r)
  \/ UpdateRejects(r)
  \/ UpdateTimesOut(r)
  \/ Catch(r)
  \/ UnhandledRejection(r)
  \/ ErrorMiddleware(r)

Next ==
  \/ \E r \in DOMAIN req : Validate(r)
  \/ \E r \in DOMAIN req : ResolveDb(r)
  \/ \E r \in DOMAIN req : IssueSave(r)
  \/ \E r \in DOMAIN req : SaveResolves(r)
  \/ \E r \in DOMAIN req : SaveRejects(r)
  \/ \E r \in DOMAIN req : SaveTimesOut(r)
  \/ \E r \in DOMAIN req : BackoffElapses(r)
  \/ \E r \in DOMAIN req : IssueFetch(r)
  \/ \E r \in DOMAIN req : FetchResolves(r)
  \/ \E r \in DOMAIN req : FetchRejects(r)
  \/ \E r \in DOMAIN req : FetchTimesOut(r)
  \/ \E r \in DOMAIN req : IssueScore(r)
  \/ \E r \in DOMAIN req : ScoreResponds(r)
  \/ \E r \in DOMAIN req : ScoreRejects(r)
  \/ \E r \in DOMAIN req : IssueUpdate(r)
  \/ \E r \in DOMAIN req : UpdateResolves(r)
  \/ \E r \in DOMAIN req : UpdateRejects(r)
  \/ \E r \in DOMAIN req : UpdateTimesOut(r)
  \/ \E r \in DOMAIN req : Catch(r)
  \/ \E r \in DOMAIN req : UnhandledRejection(r)
  \/ \E r \in DOMAIN req : ErrorMiddleware(r)
  \/ \E r \in DOMAIN req : LateSettle(r)

Spec == Init /\ [][Next]_vars

\* ------------------------------------------------ retryOperation by itself
\* what the operation handed to retryOperation resolves with
RetryValues == {"undefined", "v1", "v2"}

\* what it rejects with (or throws)
RetryErrors ==
  { Err(<<"storage", "failure">>, "none", "collaborator"),
    AxiosConnRefused,
    TimeoutError("Save candidate"),
    Nullish,
    NoMessage }

\* the delay arguments used in this program (lines 120 and 317)
RetryDelays == {DefaultRetryDelay, ScoreRetryDelay}

\* line 122: operation() is called
RetryInvoke ==
  /\ retry.pc = "call"
  /\ retry' = [retry EXCEPT !.pc = "await", !.calls = @ + 1, !.pending = @ + 1]
  /\ UNCHANGED <<process, req, storage>>

\* line 122: the awaited promise resolves and its value is returned
RetryOperationResolves ==
  /\ retry.pc = "await"
  /\ \E v \in RetryValues :
       retry' = [retry EXCEPT !.pc = "returned",
                              !.pending = @ - 1,
                              !.outcomes = Append(@, [kind |-> "value", value |-> v]),
                              !.result = [kind |-> "value", value |-> v]]
  /\ UNCHANGED <<process, req, storage>>

\* lines 123-132: the awaited promise rejects (or operation throws)
RetryOperationRejects ==
  /\ retry.pc = "await"
  /\ \E e \in RetryErrors :
       LET d == RetryCatch(retry.attempt, retry.maxRetries, retry.delay, e)
           seen == [retry EXCEPT !.pending = @ - 1,
                                 !.outcomes = Append(@, [kind |-> "error", error |-> e])]
       IN  IF d.act = "throw"
           THEN retry' = [seen EXCEPT !.pc = "thrown",
                                      !.result = [kind |-> "error", error |-> d.err]]
           ELSE retry' = [seen EXCEPT !.pc = "backoff", !.waited = Append(@, d.ms)]
  /\ UNCHANGED <<process, req, storage>>

\* line 131 and the loop header: the timer fires, the next attempt starts
RetryBackoffElapses ==
  /\ retry.pc = "backoff"
  /\ retry' = [retry EXCEPT !.pc = "call", !.attempt = @ + 1]
  /\ UNCHANGED <<process, req, storage>>

NextRetry ==
  \/ RetryInvoke
  \/ RetryOperationResolves
  \/ RetryOperationRejects
  \/ RetryBackoffElapses

\* retryOperation is called with a budget of 1..MaxAttempts attempts; no
\* request is in flight.
InitRetry ==
  /\ env = NoEnv
  /\ fieldMappings = FIELD_MAPPINGS(env)
  /\ db = [loadable |-> TRUE, exports |-> DefaultDbExports]
  /\ forwardsRejections = FALSE
  /\ collaborators = AnyCollaborators
  /\ retry \in { RetryCall(m, d) : m \in 1..MaxAttempts, d \in RetryDelays }
  /\ req = << >>
  /\ storage = [records |-> {}, updates |-> {}]

SpecRetry == InitRetry /\ [][NextRetry]_vars

\* ------------------------------------------------- two requests in flight
ConcurrentRequests == {"r1", "r2"}

\* Collaborators that answer each call in one way per outcome: the storage
\* module resolves (save with one of two ids), rejects with undefined or
\* outlasts the deadline; the scoring service answers with no or with
\* MaxRecs records, or refuses the connection.
PlainCollaborators ==
  [ ids |-> {IdNames[1], IdNames[2]},
    storageRejections |-> {Nullish},
    careersResults |-> {Array(MaxCareers)},
    scoreBodies |-> {Array(0), Array(MaxRecs)},
    axiosRejections |-> {AxiosConnRefused} ]

\* Two valid requests arrive at a process with the default configuration and
\* a complete storage module; their steps interleave in every order.
InitConc ==
  /\ env = NoEnv
  /\ fieldMappings = FIELD_MAPPINGS(env)
  /\ db = [loadable |-> TRUE, exports |-> DefaultDbExports]
  /\ forwardsRejections \in BOOLEAN
  /\ collaborators = PlainCollaborators
  /\ retry = NoRetry
  /\ req = [r \in ConcurrentRequests |->
              NewRequest([name |-> "str:Ada", fullName |-> Undefined, sector |-> "str:tech"])]
  /\ storage = [records |-> {}, updates |-> {}]

SpecConc == InitConc /\ [][Next]_vars

\* --------------------------------------------- the override variables set
\* the variables FIELD_MAPPINGS reads
MappingVars == EnvVars \ {"NODE_ENV"}

\* Environments in which up to MaxOverrides of these variables are set, each
\* to the empty string or to a name.
OverriddenEnvs ==
  UNION { { [v \in EnvVars |-> IF v \in S THEN f[v] ELSE Unset] : f \in [S -> {"", "fullName"}] } :
          S \in { T \in SUBSET MappingVars : Cardinality(T) <= MaxOverrides } }

\* A request that carries every candidate attribute arrives at a process
\* started in one of these environments, whose storage module also exports
\* an operation under the overriding name.
InitEnv ==
  /\ env \in OverriddenEnvs
  /\ fieldMappings = FIELD_MAPPINGS(env)
  /\ db = [loadable |-> TRUE, exports |-> DefaultDbExports \cup {"fullName"}]
  /\ forwardsRejections \in BOOLEAN
  /\ collaborators = PlainCollaborators
  /\ retry = NoRetry
  /\ req = [r \in Requests |->
              NewRequest([name |-> "str:Ada", fullName |-> "str:Ada", sector |-> "str:tech"])]
  /\ storage = [records |-> {}, updates |-> {}]

SpecEnv == InitEnv /\ [][Next]_vars

\* ------------------------------------------- errors of every classification
\* one Error for each combination of: code ECONNREFUSED or not, message
\* containing 'timeout' or not, message containing 'Validation failed' or not
ClassifiedErrors ==
  { Err((IF t THEN <<"timeout">> ELSE << >>) \o (IF v THEN <<"Validation failed">> ELSE << >>)
          \o <<"storage", "failure">>,
        IF c THEN "ECONNREFUSED" ELSE "none",
        "collaborator") : c \in BOOLEAN, t \in BOOLEAN, v \in BOOLEAN }

\* A valid request arrives at a process whose storage module rejects with
\* any of these errors (or with undefined).
InitCatch ==
  /\ env \in {NoEnv, [NoEnv EXCEPT !["NODE_ENV"] = "development"]}
  /\ fieldMappings = FIELD_MAPPINGS(env)
  /\ db = [loadable |-> TRUE, exports |-> DefaultDbExports]
  /\ forwardsRejections \in BOOLEAN
  /\ collaborators = [PlainCollaborators EXCEPT !.storageRejections = ClassifiedErrors \cup {Nullish}]
  /\ retry = NoRetry
  /\ req = [r \in Requests |->
              NewRequest([name |-> "str:Ada", fullName |-> Undefined, sector |-> "str:tech"])]
  /\ storage = [records |-> {}, updates |-> {}]

SpecCatch == InitCatch /\ [][Next]_vars

\* ================================================================ properties
\* helpers over one request's history
Outcomes(q, op) == SelectSeq(q.log, LAMBDA e : e[1] = op /\ e[2] # "issued")
Events(q, op) == SelectSeq(q.log, LAMBDA e : e[1] = op)
Resolved(q, op) == \E i \in 1..Len(q.log) : q.log[i] = <<op, "resolved">>
Answered(q) == Len(q.responses) > 0
Answer(q) == q.responses[Len(q.responses)]
FailedAttempts == {"rejected", "refused", "deadline", "empty", "malformed"}

\* the request lacks (absent or falsy) a required attribute under its mapped name
MissingRequired(q) ==
  \/ ~Truthy(Get(q.body, fieldMappings.candidate.name))
  \/ ~Truthy(Get(q.body, fieldMappings.candidate.sector))

\* C1: a candidate whose name or sector is missing (absent or falsy) ends in
\* Failed with the Validation answer (status 400, "Validation failed"), and no
\* collaborator operation is ever called for it nor anything written.
C1_ValidationBeforeCalls ==
  \A r \in DOMAIN req :
    MissingRequired(req[r]) =>
      /\ req[r].calls = NoCalls
      /\ req[r].pc \in {"Validating", "Failed"}
      /\ \A rec \in storage.records \cup storage.updates : rec.owner # r
      /\ req[r].pc = "Failed" =>
           /\ Len(req[r].responses) = 1
           /\ Answer(req[r]).status = 400
           /\ Answer(req[r]).body.success = FALSE
           /\ Answer(req[r]).body.error = "Validation failed"

\* C1 witness: a request with a name but no sector has been refused
C1_Witness ==
  \E r \in DOMAIN req :
    /\ Truthy(Get(req[r].body, fieldMappings.candidate.name))
    /\ ~Truthy(Get(req[r].body, fieldMappings.candidate.sector))
    /\ req[r].pc = "Failed"
    /\ Answered(req[r])

\* the handler has left the pipeline through a failure
Aborted(q) == q.pc \in {"Catch", "Failed", "Rejected", "Unhandled", "ErrorHandled"}

\* C2: the stages run in the order save, fetchCareers, scoring,
\* updateRecommendations: a stage's call is issued only when the previous
\* stage's call has resolved successfully and no call is pending, and once a
\* stage has failed the request issues no further collaborator call.
C2_StagesInOrder ==
  /\ [](\A r \in DOMAIN req :
          /\ req[r].calls.fetch > 0 => Resolved(req[r], "save")
          /\ req[r].calls.score > 0 => Resolved(req[r], "fetch")
          /\ req[r].calls.update > 0 => Resolved(req[r], "score")
          /\ \A i \in 2..Len(req[r].log) :
               req[r].log[i][2] = "issued" => req[r].log[i-1][2] # "issued")
  /\ [][\A r \in DOMAIN req : Aborted(req[r]) => req'[r].calls = req[r].calls]_vars

\* C2 witness: scoring failed after save and fetch succeeded, the request is
\* answered and updateRecommendations was never called
C2_Witness ==
  \E r \in DOMAIN req :
    /\ req[r].pc = "Failed"
    /\ Resolved(req[r], "save") /\ Resolved(req[r], "fetch")
    /\ req[r].calls.score = 2
    /\ req[r].calls.update = 0

\* C3: when save has succeeded and a later stage fails (by rejection, by a
\* malformed result or by timeout), the failure report of the pipeline carries
\* the id that save returned to this request.
C3_FailureCarriesSavedId ==
  \A r \in DOMAIN req :
    (req[r].pc = "Failed" /\ Resolved(req[r], "save")) =>
      /\ Answer(req[r]).body.success = FALSE
      /\ Answer(req[r]).body.candidateId = req[r].saveReturned
      /\ req[r].saveReturned \in Ids

\* C3 witness: save succeeded, fetchCareers ran into its deadline, and the
\* failure has been reported
C3_Witness ==
  \E r \in DOMAIN req :
    /\ req[r].pc = "Failed"
    /\ Resolved(req[r], "save")
    /\ Outcomes(req[r], "fetch") = << <<"fetch", "deadline">> >>
    /\ Answer(req[r]).body.candidateId = req[r].saveReturned

\* C4: save is called under a timeout only, never retried: Storage.save and
\* Storage.fetchCareers are each invoked at most once per request.
C4_SaveAndFetchAtMostOnce ==
  \A r \in DOMAIN req : req[r].calls.save <= 1 /\ req[r].calls.fetch <= 1

\* C5: Storage.updateRecommendations is invoked at most once per request,
\* whether its invocation resolves, rejects or runs into the deadline.
C5_UpdateAtMostOnce ==
  \A r \in DOMAIN req : req[r].calls.update <= 1

\* C5 witness: the one update call failed and the request ended in Failed
C5_Witness ==
  \E r \in DOMAIN req :
    /\ req[r].pc = "Failed"
    /\ req[r].calls.update = 1
    /\ Len(Outcomes(req[r], "update")) = 1
    /\ Outcomes(req[r], "update")[1][2] \in {"rejected", "deadline"}

\* C6: the scoring service is called at most twice per request; a second call
\* is made only after the first attempt failed, and none after a success.
C6_ScoringAtMostTwice ==
  \A r \in DOMAIN req :
    LET ev == Events(req[r], "score")
    IN  /\ req[r].calls.score <= 2
        /\ \A i \in 1..Len(ev) :
             /\ (ev[i][2] = "issued" /\ i > 1) => ev[i-1][2] \in FailedAttempts
             /\ (ev[i][2] = "resolved") => i = Len(ev)

\* C6 witness: the first scoring attempt failed and the second succeeded
C6_Witness ==
  \E r \in DOMAIN req :
    /\ req[r].calls.score = 2
    /\ Len(Outcomes(req[r], "score")) = 2
    /\ Outcomes(req[r], "score")[1][2] \in FailedAttempts
    /\ Outcomes(req[r], "score")[2][2] = "resolved"

\* every scoring attempt of the budget was refused (ECONNREFUSED)
ScoringUnreachable(q) ==
  /\ Resolved(q, "save") /\ Resolved(q, "fetch")
  /\ Len(Outcomes(q, "score")) = ScoreMaxRetries
  /\ \A i \in 1..ScoreMaxRetries : Outcomes(q, "score")[i][2] = "refused"

\* C7: when save and fetchCareers succeed and every scoring attempt is refused
\* (ECONNREFUSED), the request is answered 503 with {success: false,
\* error: "AI recommendation failed", candidateId: the saved id} and
\* updateRecommendations is never called.
C7_ScoringUnreachable ==
  \A r \in DOMAIN req :
    ScoringUnreachable(req[r]) =>
      /\ req[r].calls.update = 0
      /\ req[r].pc \in {"Catch", "Failed"}
      /\ req[r].pc = "Failed" =>
           /\ Len(req[r].responses) = 1
           /\ Answer(req[r]).status = 503
           /\ Answer(req[r]).body.success = FALSE
           /\ Answer(req[r]).body.error = "AI recommendation failed"
           /\ Answer(req[r]).body.candidateId = req[r].saveReturned

\* C7 witness: the scoring service was unreachable and the failure is reported
C7_Witness ==
  \E r \in DOMAIN req :
    /\ ScoringUnreachable(req[r])
    /\ req[r].pc = "Failed"
    /\ Answer(req[r]).status = 503

\* the kind of a failed request, from where its failure arose
KindOf(q) ==
  IF q.err = NoErr THEN "Validation"
  ELSE IF q.err.origin = "deadline" THEN "Timeout"
  ELSE IF q.err.origin = "contract" THEN "ContractViolation"
  ELSE IF q.err.code = "ECONNREFUSED" THEN "ConnectionRefused"
  ELSE "Unknown"

KindStatus(kind) ==
  CASE kind = "Validation" -> 400
    [] kind = "Timeout" -> 408
    [] kind = "ConnectionRefused" -> 503
    [] kind = "ContractViolation" -> 500
    [] OTHER -> 500

\* C8: every failed request is answered with the status of its kind:
\* Validation 400, Timeout 408, ConnectionRefused 503, ContractViolation
\* (missing operation, malformed collaborator response) 500, anything else 500.
C8_StatusOfKind ==
  \A r \in DOMAIN req :
    req[r].pc = "Failed" => Answer(req[r]).status = KindStatus(KindOf(req[r]))

\* C9: a failed stage is reported 408 exactly when its deadline fired; a
\* collaborator call that rejected by itself is never reported as a timeout.
C9_TimeoutIffDeadline ==
  \A r \in DOMAIN req :
    (req[r].pc = "Failed" /\ req[r].err.origin \in {"deadline", "collaborator"}) =>
      (Answer(req[r]).status = 408 <=> req[r].err.origin = "deadline")

\* C10: a request that has nothing left to do has sent exactly one response
\* (and no request ever sends two).
C10_ExactlyOneResponse ==
  \A r \in DOMAIN req :
    /\ Len(req[r].responses) <= 1
    /\ ~ENABLED Step(r) =>
         /\ Len(req[r].responses) = 1
         /\ req[r].pc \in {"Done", "Failed", "ErrorHandled"}

FailureFields == {"success", "error", "candidateId", "processingTime"}

\* C11: every failure response of the pipeline, the validation failure
\* included, has the fields success, error, candidateId and processingTime
\* (and at most details besides).
C11_FailureShape ==
  \A r \in DOMAIN req :
    \A i \in 1..Len(req[r].responses) :
      LET res == req[r].responses[i]
      IN  (res.by = "recommend" /\ res.body.success = FALSE) =>
            /\ FailureFields \subseteq DOMAIN res.body
            /\ DOMAIN res.body \subseteq FailureFields \cup {"details"}

\* the number of records of a scoring response body
RecordCount(v) == IF v.kind = "array" THEN v.len ELSE 0

\* C12: when all four stages succeed the answer is a success carrying the id
\* save returned, the scoring body unchanged, the number of careers fetched
\* and the number of recommendation records received.
C12_SuccessResponse ==
  \A r \in DOMAIN req :
    req[r].pc = "Done" =>
      /\ Len(req[r].responses) = 1
      /\ Answer(req[r]).status = 200
      /\ Answer(req[r]).body.success = TRUE
      /\ Answer(req[r]).body.candidateId = req[r].saveReturned
      /\ req[r].saveReturned \in Ids
      /\ Answer(req[r]).body.recommendations = req[r].scoreReturned
      /\ Answer(req[r]).body.metadata.careersAnalyzed = req[r].fetchReturned.len
      /\ Answer(req[r]).body.metadata.recommendationsGenerated = RecordCount(req[r].scoreReturned)

\* C12 witness: a success with one career analysed and no recommendation
C12_Witness ==
  \E r \in DOMAIN req :
    /\ req[r].pc = "Done"
    /\ req[r].fetchReturned = Array(1)
    /\ req[r].scoreReturned = Array(0)
    /\ Answer(req[r]).body.success = TRUE

Succeeded(q) == \E i \in 1..Len(q.responses) : q.responses[i].body.success = TRUE

\* C13: a success response is sent only after updateRecommendations was
\* called once with (the id save returned, the scoring body unchanged) and
\* that call resolved before its deadline; when the call rejects or its
\* deadline fires the request never reaches Done and sends no success.
C13_SuccessOnlyAfterUpdate ==
  \A r \in DOMAIN req :
    /\ (Succeeded(req[r]) \/ req[r].pc = "Done") =>
         /\ req[r].pc = "Done"
         /\ req[r].updateArgs =
              << [id |-> req[r].saveReturned, recommendations |-> req[r].scoreReturned] >>
         /\ req[r].saveReturned \in Ids
         /\ Outcomes(req[r], "update") = << <<"update", "resolved">> >>
    /\ (\E i \in 1..Len(req[r].log) :
          req[r].log[i][1] = "update" /\ req[r].log[i][2] \in {"rejected", "refused", "deadline"}) =>
         /\ Aborted(req[r])
         /\ ~Succeeded(req[r])

\* C13 witness: the update resolved and the success was sent
C13_Witness ==
  \E r \in DOMAIN req :
    /\ req[r].pc = "Done"
    /\ Succeeded(req[r])
    /\ Len(req[r].updateArgs) = 1
    /\ req[r].updateArgs[1].recommendations = Array(1)

\* fetchCareers resolved with something that is no array
MalformedCareers(q) ==
  /\ ~IsArray(q.fetchReturned)
  /\ Outcomes(q, "fetch") = << <<"fetch", "malformed">> >>

\* C14: when fetchCareers resolves with a value that is no array the request
\* fails with status 500 and the saved candidateId, and neither the scoring
\* service nor updateRecommendations is called.
C14_NonArrayCareers ==
  \A r \in DOMAIN req :
    MalformedCareers(req[r]) =>
      /\ req[r].calls.score = 0
      /\ req[r].calls.update = 0
      /\ req[r].pc \in {"Catch", "Failed"}
      /\ req[r].err.origin = "contract"
      /\ req[r].pc = "Failed" =>
           /\ Answer(req[r]).status = 500
           /\ Answer(req[r]).body.success = FALSE
           /\ Answer(req[r]).body.candidateId = req[r].saveReturned
           /\ req[r].saveReturned \in Ids

\* C14 witness: a non-array careers result has been reported as a failure
C14_Witness ==
  \E r \in DOMAIN req :
    /\ MalformedCareers(req[r])
    /\ req[r].pc = "Failed"
    /\ Answer(req[r]).status = 500

\* the scoring service answered at least once with an empty or absent body
EmptyAnswer(q) ==
  \E i \in 1..Len(q.log) : q.log[i] = <<"score", "empty">>

\* updateRecommendations is never called with an empty body
NoEmptyUpdate(q) ==
  \A i \in 1..Len(q.updateArgs) : TruthyData(q.updateArgs[i].recommendations)

\* C15 as stated: once the scoring service has answered with an empty or
\* absent body the request does not succeed, its failure is reported with a
\* status other than 408 and 503, and updateRecommendations is never called
\* with the empty body.
C15_AnyEmptyAnswerFails ==
  \A r \in DOMAIN req :
    /\ NoEmptyUpdate(req[r])
    /\ EmptyAnswer(req[r]) =>
         /\ req[r].pc # "Done"
         /\ req[r].pc = "Failed" => Answer(req[r]).status \notin {408, 503}

\* the scoring attempt that used up the budget was answered with an empty body
LastAnswerEmpty(q) ==
  /\ q.calls.score = ScoreMaxRetries
  /\ Len(Outcomes(q, "score")) = ScoreMaxRetries
  /\ Outcomes(q, "score")[ScoreMaxRetries] = <<"score", "empty">>

\* C15 amended: an empty or absent body fails the attempt that received it
\* and the attempt is retried like any other failure; when the last attempt
\* of the budget is answered with an empty body the request fails with
\* status 500 (neither 408 nor 503), whatever the earlier attempt failed
\* with, and updateRecommendations is never called with an empty body.
C15_EmptyScoringBody ==
  \A r \in DOMAIN req :
    /\ NoEmptyUpdate(req[r])
    /\ req[r].pc \in {"Persisting", "AwaitUpdate", "Done"} => TruthyData(req[r].recommendations)
    /\ LastAnswerEmpty(req[r]) =>
         /\ req[r].pc \in {"Catch", "Failed"}
         /\ req[r].calls.update = 0
         /\ req[r].pc = "Failed" =>
              /\ Answer(req[r]).status = 500
              /\ Answer(req[r]).body.success = FALSE

\* C15 witness: the first attempt was refused, the second answered with an
\* empty body, and the request was answered 500
C15_Witness ==
  \E r \in DOMAIN req :
    /\ LastAnswerEmpty(req[r])
    /\ Outcomes(req[r], "score")[1] = <<"score", "refused">>
    /\ req[r].pc = "Failed"
    /\ Answer(req[r]).status = 500

\* C16: when the storage module lacks one of the configured operations the
\* request fails with status 500, never 408, whatever the operations are
\* named.
C16_MissingOperationIs500 ==
  \A r \in DOMAIN req :
    ( /\ db.loadable
      /\ Len(MissingMethods(fieldMappings, db)) > 0
      /\ req[r].pc = "Failed"
      /\ req[r].err.origin = "contract" ) =>
        Answer(req[r]).status = 500

\* the record request r's save created
SavedRecord(r) == [owner |-> r, id |-> req[r].saveReturned]

\* C17: a completed save is never rolled back: no step removes a record from
\* storage, a request that has failed calls no further operation, and after
\* a failure behind a resolved save the record is in storage, without
\* recommendations when updateRecommendations was never called.
C17_NoRollback ==
  /\ [][ /\ storage.records \subseteq storage'.records
         /\ \A r \in DOMAIN req : Aborted(req[r]) => req'[r].calls = req[r].calls ]_vars
  /\ [](\A r \in DOMAIN req :
          (Aborted(req[r]) /\ Resolved(req[r], "save")) =>
            /\ SavedRecord(r) \in storage.records
            /\ req[r].calls.update = 0 =>
                 \A u \in storage.updates : u.owner # r)

\* C17 witness: scoring failed after the save, the failure was answered, and
\* the record is in storage with no recommendations
C17_Witness ==
  \E r \in DOMAIN req :
    /\ req[r].pc = "Failed"
    /\ Resolved(req[r], "save")
    /\ req[r].calls.score > 0
    /\ req[r].calls.update = 0
    /\ SavedRecord(r) \in storage.records
    /\ \A u \in storage.updates : u.owner # r

\* what request r passed to, and got from, its own collaborator calls
OwnUpdate(r) ==
  [id |-> req[r].saveReturned, recommendations |-> req[r].scoreReturned]

\* C18: with two requests in flight, in every interleaving: no step writes
\* process-level state, and each request's response carries the id its own
\* save returned (or null before that), each update call passes that id and
\* the recommendations its own scoring call returned, and so does each
\* success response and each stored update.
C18_NoSharedState ==
  /\ [][UNCHANGED process]_vars
  /\ [](\A r \in DOMAIN req :
          /\ req[r].candidateId = req[r].saveReturned
          /\ \A i \in 1..Len(req[r].updateArgs) : req[r].updateArgs[i] = OwnUpdate(r)
          /\ \A i \in 1..Len(req[r].responses) :
               LET body == req[r].responses[i].body
               IN  /\ "candidateId" \in DOMAIN body => body.candidateId = req[r].saveReturned
                   /\ body.success => body.recommendations = req[r].scoreReturned
          /\ \A u \in storage.updates :
               u.owner = r => (u.id = req[r].saveReturned /\ u.recommendations = req[r].scoreReturned))

\* C18 witness: two requests both answered, one with a success and the other
\* with a failure after its save, with different ids
C18_Witness ==
  /\ DOMAIN req = ConcurrentRequests
  /\ req["r1"].pc = "Done"
  /\ req["r2"].pc = "Failed"
  /\ req["r1"].saveReturned \in Ids
  /\ req["r2"].saveReturned \in Ids
  /\ req["r1"].saveReturned # req["r2"].saveReturned
  /\ Answer(req["r1"]).body.candidateId = req["r1"].saveReturned
  /\ Answer(req["r2"]).body.candidateId = req["r2"].saveReturned

\* the attempts of the call so far that failed
AllFailed(c) == \A i \in 1..Len(c.outcomes) : c.outcomes[i].kind = "error"

\* C19: retryOperation with a budget of maxRetries >= 1 calls the operation
\* one attempt at a time and at most maxRetries times; it returns the value
\* of the first attempt that succeeds and calls no more; when all maxRetries
\* attempts have failed it throws the error of the last attempt, unchanged.
C19_RetryOperation ==
  /\ retry.pending <= 1
  /\ retry.calls <= retry.maxRetries
  /\ Len(retry.outcomes) \in {retry.calls - 1, retry.calls}
  /\ retry.pc = "returned" =>
       /\ Len(retry.outcomes) = retry.calls
       /\ retry.outcomes[retry.calls].kind = "value"
       /\ retry.result = retry.outcomes[retry.calls]
       /\ \A i \in 1..(retry.calls - 1) : retry.outcomes[i].kind = "error"
  /\ (Len(retry.outcomes) = retry.maxRetries /\ AllFailed(retry)) =>
       /\ retry.pc = "thrown"
       /\ retry.result = retry.outcomes[retry.maxRetries]

\* C20: the delay waited before attempt k (k >= 2) is delay * (k - 1), one
\* delay between two attempts, and none after the attempt whose failure is
\* propagated.
C20_LinearBackoff ==
  /\ \A i \in 1..Len(retry.waited) : retry.waited[i] = retry.delay * i
  /\ retry.pc \in {"call", "await"} => Len(retry.waited) = retry.attempt - 1
  /\ retry.pc = "backoff" => Len(retry.waited) = retry.attempt
  /\ retry.pc \in {"thrown", "returned"} => Len(retry.waited) = retry.calls - 1

\* C20 witness: three attempts failed on a budget of three, after delays of
\* delay and 2 * delay
C20_Witness ==
  /\ retry.pc = "thrown"
  /\ retry.maxRetries >= 3
  /\ retry.calls = retry.maxRetries
  /\ retry.delay = ScoreRetryDelay
  /\ Len(retry.waited) = retry.maxRetries - 1
  /\ retry.waited[1] = ScoreRetryDelay
  /\ retry.waited[2] = 2 * ScoreRetryDelay

\* the calls made under withTimeout, with the pc that awaits them and the
\* label given to withTimeout
TimedOps == {"save", "fetch", "update"}
AwaitPc(op) ==
  CASE op = "save" -> "AwaitSave" [] op = "fetch" -> "AwaitFetch" [] op = "update" -> "AwaitUpdate"
TimeoutLabel(op) ==
  CASE op = "save" -> "Save candidate"
    [] op = "fetch" -> "Fetch careers"
    [] op = "update" -> "Update recommendations"

\* the last thing the handler saw of call op
LastSeen(q, op, what) == Len(q.log) > 0 /\ q.log[Len(q.log)] = <<op, what>>

\* C21: withTimeout hands its caller exactly one outcome per call: the
\* operation's own value or error, unchanged, when it settles first, and the
\* timeout error with the call's label when the deadline fires first; a
\* call that settles after its deadline changes nothing the handler holds,
\* the response included.
C21_OneOutcome ==
  /\ [](\A r \in DOMAIN req : \A op \in TimedOps :
          /\ Len(Outcomes(req[r], op)) =
               req[r].calls[op] - (IF req[r].pc = AwaitPc(op) THEN 1 ELSE 0)
          /\ (req[r].pc = "Catch" /\ LastSeen(req[r], op, "deadline")) =>
               req[r].err = TimeoutError(TimeoutLabel(op))
          /\ ( /\ req[r].pc = "Catch"
               /\ op # "save"
               /\ LastSeen(req[r], op, "rejected") \/ LastSeen(req[r], op, "refused") ) =>
               req[r].err = req[r].rejectedWith
          /\ LastSeen(req[r], "save", "resolved") => req[r].candidateId = req[r].saveReturned
          /\ (LastSeen(req[r], "fetch", "resolved") /\ req[r].pc = "Scoring") =>
               req[r].careers = req[r].fetchReturned)
  /\ [][\A r \in DOMAIN req :
          (req'[r].abandoned # req[r].abandoned /\ req'[r].abandoned \subseteq req[r].abandoned) =>
            req'[r] = [req[r] EXCEPT !.abandoned = req'[r].abandoned]]_vars

\* C21 witness: the update's deadline fired, the request was answered 408,
\* and the update then completed in storage behind the answer
C21_Witness ==
  \E r \in DOMAIN req :
    /\ req[r].pc = "Failed"
    /\ LastSeen(req[r], "update", "deadline")
    /\ req[r].abandoned = {}
    /\ Len(req[r].responses) = 1
    /\ Answer(req[r]).status = 408
    /\ \E u \in storage.updates : u.owner = r

\* the internal symbols of the table, by group
MappingSymbols ==
  [ candidate |-> {"name", "sector", "skills", "experience", "education", "preferences", "id"},
    dbMethods |-> {"getDropdowns", "saveCandidate", "fetchCareers", "updateRecommendations"},
    careerFilter |-> {"sector"},
    aiPayload |-> {"candidate", "careers"} ]

\* C22: whatever override variables are unset, empty or set to a name, the
\* table built at start gives every internal symbol exactly one external
\* name, which is not empty, and no step of a request changes the table.
C22_MappingsResolved ==
  /\ fieldMappings = FIELD_MAPPINGS(env)
  /\ DOMAIN fieldMappings = DOMAIN MappingSymbols
  /\ \A g \in DOMAIN MappingSymbols :
       /\ DOMAIN fieldMappings[g] = MappingSymbols[g]
       /\ \A k \in MappingSymbols[g] : fieldMappings[g][k] \notin {"", Unset}

\* C22 witness: a request was served by a process whose save-operation
\* override is set to the empty string
C22_Witness ==
  /\ env["DB_SAVE_CANDIDATE_METHOD"] = ""
  /\ fieldMappings.dbMethods.saveCandidate = "saveCandidate"
  /\ \E r \in DOMAIN req : req[r].pc = "Done"

\* C23: when a failure response carries candidateId = null, storage holds
\* no candidate record created by that request, then and ever after.
C23_NullIdNoRecord ==
  \A r \in DOMAIN req :
    ( /\ req[r].pc = "Failed"
      /\ "candidateId" \in DOMAIN Answer(req[r]).body
      /\ Answer(req[r]).body.candidateId = NullId ) =>
        \A rec \in storage.records : rec.owner # r

\* the storage module is there but lacks a mapped operation
OperationMissing ==
  /\ db.loadable
  /\ \E k \in DOMAIN fieldMappings.dbMethods : fieldMappings.dbMethods[k] \notin db.exports

\* C24: all four mapped storage operations are looked for before Saving:
\* when one is missing no collaborator operation is ever called, nothing is
\* stored, and the failure is answered with candidateId = null.
C24_MethodsCheckedFirst ==
  \A r \in DOMAIN req :
    OperationMissing =>
      /\ req[r].calls = NoCalls
      /\ req[r].log = << >>
      /\ \A rec \in storage.records \cup storage.updates : rec.owner # r
      /\ req[r].pc \in {"Validating", "ResolvingDb", "Catch", "Failed"}
      /\ req[r].pc = "Catch" => req[r].err.origin = "contract"
      /\ req[r].candidateId = NullId
      /\ (req[r].pc = "Failed" /\ req[r].err # NoErr) =>
           /\ Answer(req[r]).body.success = FALSE
           /\ Answer(req[r]).body.candidateId = NullId

\* C24 witness: the module lacks only getDropdowns, which the pipeline never
\* calls, and the request was refused
C24_Witness ==
  \E r \in DOMAIN req :
    /\ db.loadable
    /\ db.exports = DefaultDbExports \ {"getDropdowns"}
    /\ fieldMappings.dbMethods.getDropdowns = "getDropdowns"
    /\ req[r].pc = "Failed"
    /\ req[r].err.origin = "contract"
    /\ Answer(req[r]).body.candidateId = NullId

\* the status the precedence gives
StatusByPrecedence(err) ==
  IF err.code = "ECONNREFUSED" THEN 503
  ELSE IF \E i \in 1..Len(err.msg) : err.msg[i] = "timeout" THEN 408
  ELSE IF \E i \in 1..Len(err.msg) : err.msg[i] = "Validation failed" THEN 400
  ELSE 500

\* C25: a failure answered by the catch block has status 503 if the error's
\* code is ECONNREFUSED, otherwise 408 if its message contains 'timeout',
\* otherwise 400 if it contains 'Validation failed', otherwise 500, and the
\* error text "AI recommendation failed" in every case.
C25_StatusPrecedence ==
  \A r \in DOMAIN req :
    (req[r].pc = "Failed" /\ req[r].err # NoErr) =>
      /\ Answer(req[r]).by = "recommend"
      /\ Answer(req[r]).status = StatusByPrecedence(req[r].err)
      /\ Answer(req[r]).body.error = "AI recommendation failed"
      /\ Answer(req[r]).body.success = FALSE

\* C25 witness: an error that is all three at once (ECONNREFUSED, 'timeout',
\* 'Validation failed') was answered 503
C25_Witness ==
  \E r \in DOMAIN req :
    /\ req[r].pc = "Failed"
    /\ req[r].err.code = "ECONNREFUSED"
    /\ Includes(req[r].err.msg, "timeout")
    /\ Includes(req[r].err.msg, "Validation failed")
    /\ Answer(req[r]).status = 503

====
